---- MODULE Spec2Model ----
(***************************************************************************)
(* RecordSet (proto/src/rr/rr_set.rs) and BinDecoder                       *)
(* (proto/src/serialize/binary/decoder.rs) of trust-dns as state machines. *)
(* Sequences are 1-based here; the Rust code is 0-based.                   *)
(***************************************************************************)
EXTENDS Integers, Sequences, FiniteSets, TLC

VARIABLES
    name,         \* RecordSet.name
    record_type,  \* RecordSet.record_type
    dns_class,    \* RecordSet.dns_class
    ttl,          \* RecordSet.ttl
    records,      \* RecordSet.records
    rrsigs,       \* RecordSet.rrsigs
    serial,       \* RecordSet.serial
    fault,        \* "none", or the assertion / panic that ended the program
    op,           \* the last RecordSet operation called
    arg_type,     \* the rr_type of the record passed to it ("" if none)
    ret,          \* what the last insert / remove returned
    before,       \* records and rrsigs as they were before the last call
    supported,    \* the argument of the last records_with_rrsigs
    out,          \* what the last records_with_rrsigs returned
    soa_high,     \* the highest SOA rdata serial the set has stored (0: none)
    buffer,       \* the byte slice the decoders borrow
    position,     \* the cursor position of the decoder and of its clone
    d_last,       \* the last decoder call: operation, cursor, outcome
    enc_buffer,   \* the Vec<u8> behind BinEncoder.buffer
    enc_position, \* the position of the Cursor BinEncoder.buffer
    name_pointers,  \* BinEncoder.name_pointers
    mode,         \* BinEncoder.mode
    canonical_names,  \* BinEncoder.canonical_names
    emits,        \* how many emit calls the encoder has served
    e_last        \* the last encoder call: operation, argument, state before

rsVars == <<name, record_type, dns_class, ttl, records, rrsigs, serial,
            fault, op, arg_type, ret, before,
            supported, out, soa_high>>
decVars == <<buffer, position, d_last>>
encVars == <<enc_buffer, enc_position, name_pointers, mode, canonical_names,
             emits, e_last>>
vars == <<rsVars, decVars, encVars>>

------------------------------------------------------------------------------
(* Bounds *)

MaxSoaSerial == 2   \* SOA rdata serials are 1..MaxSoaSerial
MaxRrsigs == 1      \* signatures attached while the set is being mutated
MaxSigs == 2        \* signatures attached while the set is being queried
MaxBufLen == 4      \* length of the decoded buffer
MaxEmits == 2       \* emit calls served by one encoder

------------------------------------------------------------------------------
(* Values *)

\* Names, classes, ttls, serial arguments and rdata payloads are only ever
\* compared for equality by the code: two values of each.
Names == {"example.com.", "www.example.com."}
SetName == "example.com."
DNSClasses == {"IN", "CH"}
TTLs == {0, 3600}
Serials == {0, 1}
Targets == {"a", "b"}

SetTypes == {"A", "NS", "SOA", "CNAME"}
RecordTypes == SetTypes \cup {"ANY"}

\* Algorithm::RSASHA256, Algorithm::ECDSAP256SHA256 by their numbers
Algorithms == {8, 13}
RSASHA1 == 5

\* RData: kind is the enum variant; val is the address / target name /
\* SOA mname; soa_serial is SOA::serial() and algorithm is SIG::algorithm()
\* (0 where the variant has none).
RData(k, v, s, a) == [kind |-> k, val |-> v, soa_serial |-> s, algorithm |-> a]
RData_A(v) == RData("A", v, 0, 0)
RData_NS(v) == RData("NS", v, 0, 0)
RData_CNAME(v) == RData("CNAME", v, 0, 0)
RData_SOA(m, s) == RData("SOA", m, s, 0)
RData_SIG(a) == RData("SIG", "", 0, a)
RData_NULL == RData("NULL", "", 0, 0)

RDatas ==
    {RData_A(v) : v \in Targets} \cup
    {RData_NS(v) : v \in Targets} \cup
    {RData_CNAME(v) : v \in Targets} \cup
    {RData_SOA(m, s) : m \in Targets, s \in 1..MaxSoaSerial}

\* RData::to_record_type
to_record_type(rdata) == IF rdata.kind = "SIG" THEN "RRSIG" ELSE rdata.kind

Record(n, t, c, l, d) ==
    [name |-> n, rr_type |-> t, dns_class |-> c, ttl |-> l, rdata |-> d]

\* Record::with(name, rr_type, ttl): class IN, rdata NULL
RecordWith(n, t, l) == Record(n, t, "IN", l, RData_NULL)

\* Records a caller can build: the type and the rdata are set independently
\* (set_rr_type, set_rdata). Well-typed records, ANY-typed records with any
\* rdata, and an SOA-typed record that carries A rdata. An ANY-typed record
\* only ever reaches remove, which reads its rdata alone, so it comes with
\* one class and ttl. A record under another name than the set's only ever
\* meets the name assertion: it is well typed, with one class and ttl. A
\* record of the other class comes with one ttl.
WellTyped(r) == r.rr_type = to_record_type(r.rdata)
Records ==
    {r \in [name : Names, rr_type : RecordTypes, dns_class : DNSClasses,
            ttl : TTLs, rdata : RDatas] :
        /\ \/ WellTyped(r)
           \/ r.rr_type = "ANY" /\ r.dns_class = "IN" /\ r.ttl = 0
           \/ r.rr_type = "SOA" /\ r.rdata = RData_A("a")
        /\ \/ r.name = SetName /\ (r.dns_class = "IN" \/ r.ttl = 0)
           \/ r.dns_class = "IN" /\ r.ttl = 0 /\ WellTyped(r)}

\* What insert_rrsig is given: a signature by each algorithm, and one record
\* that is no signature at all (insert_rrsig validates nothing).
RRSIG(a) == Record(SetName, "RRSIG", "IN", 3600, RData_SIG(a))
NotASig == Record(SetName, "A", "IN", 3600, RData_A("a"))
SigRecords == {RRSIG(a) : a \in Algorithms} \cup {NotASig}
\* While the set is mutated, what the signatures are does not matter
SignerRecords == {RRSIG(8)}

------------------------------------------------------------------------------
(* RecordSet: the pure parts of the operations.                            *)
(* A set state st is [records, rrsigs, serial, ttl]; an operation yields   *)
(* [st, ret, fault].                                                       *)

\* Record's PartialEq
RecordEq(a, b) == a = b

Returns(st, r) == [st |-> st, ret |-> r, fault |-> "none"]
Panics(st, f) == [st |-> st, ret |-> FALSE, fault |-> f]

updated_keeps_rrsigs(st, s) == [st EXCEPT !.serial = s]

\* RecordSet::updated
updated(st, s) == [st EXCEPT !.serial = s, !.rrsigs = <<>>]

swap_remove_shifting(s, i) ==
    [k \in 1..(Len(s) - 1) |-> IF k < i THEN s[k] ELSE s[k + 1]]

\* Vec::swap_remove(i): element i is replaced by the last element
swap_remove(s, i) ==
    [k \in 1..(Len(s) - 1) |-> IF k = i THEN s[Len(s)] ELSE s[k]]

\* Vec::remove(i): the elements after i shift left
vec_remove(s, i) ==
    [k \in 1..(Len(s) - 1) |-> IF k < i THEN s[k] ELSE s[k + 1]]

whole_record_matches(recs, record, i) ==
    IF \E j \in i..Len(recs) : recs[j] = record
    THEN <<CHOOSE j \in i..Len(recs) : recs[j] = record>>
    ELSE <<>>

no_matches(recs, record, i) == <<>>

\* the indexes of the records whose rdata equals the given record's rdata,
\* ascending (to_replace in insert, to_remove in remove)
RECURSIVE rdata_matches(_, _, _)
rdata_matches(recs, record, i) ==
    IF i > Len(recs) THEN <<>>
    ELSE IF recs[i].rdata = record.rdata
         THEN <<i>> \o rdata_matches(recs, record, i + 1)
         ELSE rdata_matches(recs, record, i + 1)

clear_records_skipped(st) == st

\* insert: `self.records.clear()`
clear_records(st) == [st EXCEPT !.records = <<>>]

soa_out_of_date_strict(new_soa, existing_soa) ==
    new_soa.soa_serial < existing_soa.soa_serial

\* insert: `new_soa.serial() <= existing_soa.serial()`
soa_out_of_date(new_soa, existing_soa) ==
    new_soa.soa_serial <= existing_soa.soa_serial

\* insert: the match on record.rr_type(); ret is FALSE on the early
\* `return false`, TRUE when insert goes on with the set state st
insert_single_valued(st, record) ==
    CASE record.rr_type = "SOA" ->
           IF Len(st.records) > 1 THEN Panics(st, "assert_len")
           ELSE IF Len(st.records) = 1 /\ st.records[1].rdata.kind # "SOA"
                THEN Panics(st, "wrong_rdata")
           ELSE IF Len(st.records) = 1 /\ record.rdata.kind # "SOA"
                THEN Returns(st, FALSE)
           ELSE IF /\ Len(st.records) = 1
                   /\ soa_out_of_date(record.rdata, st.records[1].rdata)
                THEN Returns(st, FALSE)
           ELSE Returns(clear_records(st), TRUE)
      [] record.rr_type = "CNAME" ->
           IF Len(st.records) > 1 THEN Panics(st, "assert_len")
           ELSE Returns(clear_records(st), TRUE)
      [] OTHER -> Returns(st, TRUE)

ttl_kept(st, record) == st

\* insert: `self.ttl = record.ttl()`
take_ttl(st, record) == [st EXCEPT !.ttl = record.ttl]

insert_asserts_name_only(n, t, record) ==
    IF record.name # n THEN "assert_name" ELSE "none"

\* insert: the two assert_eq!, as the assertion that fails ("none" if none)
insert_asserts(n, t, record) ==
    IF record.name # n THEN "assert_name"
    ELSE IF record.rr_type # t THEN "assert_type"
    ELSE "none"

\* insert: `for i in to_replace`
RECURSIVE insert_replace(_, _, _, _, _)
insert_replace(st, idx, record, s, replaced) ==
    IF idx = <<>> THEN [st |-> st, replaced |-> replaced, returned |-> FALSE]
    ELSE IF RecordEq(st.records[Head(idx)], record)
         THEN [st |-> st, replaced |-> replaced, returned |-> TRUE]
         ELSE insert_replace(
                updated(take_ttl([st EXCEPT
                           !.records = swap_remove(Append(@, record), Head(idx))],
                                 record), s),
                Tail(idx), record, s, TRUE)

\* RecordSet::insert
insert_call(st, n, t, record, s) ==
    IF insert_asserts(n, t, record) # "none"
    THEN Panics(st, insert_asserts(n, t, record))
    ELSE LET sv == insert_single_valued(st, record) IN
         IF sv.fault # "none" THEN sv
         ELSE IF ~sv.ret THEN Returns(sv.st, FALSE)
         ELSE LET lp == insert_replace(sv.st,
                            rdata_matches(sv.st.records, record, 1),
                            record, s, FALSE) IN
              IF lp.returned THEN Returns(lp.st, FALSE)
              ELSE IF ~lp.replaced
                   THEN Returns([updated(take_ttl(lp.st, record), s)
                                    EXCEPT !.records = Append(@, record)], TRUE)
                   ELSE Returns(lp.st, lp.replaced)

remove_refused_ns_only(st, record) ==
    record.rr_type = "NS" /\ Len(st.records) <= 1

\* remove: the match on record.rr_type(): TRUE when the delete is refused
remove_refused(st, record) ==
    CASE record.rr_type = "NS" -> Len(st.records) <= 1
      [] record.rr_type = "SOA" -> TRUE
      [] OTHER -> FALSE

remove_loop_reports_nothing(st, idx, s, removed) ==
    IF idx = <<>> THEN Returns(st, FALSE)
    ELSE Returns(updated([st EXCEPT !.records = vec_remove(@, Head(idx))], s),
                 FALSE)

\* remove: `for i in to_remove`
RECURSIVE remove_loop(_, _, _, _)
remove_loop(st, idx, s, removed) ==
    IF idx = <<>> THEN Returns(st, removed)
    ELSE IF Head(idx) > Len(st.records) THEN Panics(st, "index_out_of_bounds")
    ELSE remove_loop(
           updated([st EXCEPT !.records = vec_remove(@, Head(idx))], s),
           Tail(idx), s, TRUE)

\* RecordSet::remove
remove_call(st, n, t, record, s) ==
    IF record.name # n THEN Panics(st, "assert_name")
    ELSE IF ~(record.rr_type = t \/ record.rr_type = "ANY")
         THEN Panics(st, "assert_type")
    ELSE IF remove_refused(st, record) THEN Returns(st, FALSE)
    ELSE remove_loop(st, rdata_matches(st.records, record, 1), s, FALSE)

\* RecordSet::new_record
new_record_call(st, n, t, rdata) ==
    IF t # to_record_type(rdata) THEN Panics(st, "assert_type")
    ELSE LET record == [RecordWith(n, t, st.ttl) EXCEPT !.rdata = rdata]
             ins == insert_call(st, n, t, record, 0) IN
         IF ins.fault # "none" THEN ins
         ELSE IF \E i \in 1..Len(ins.st.records) :
                    ins.st.records[i].rdata = rdata
              THEN ins
              ELSE Panics(ins.st, "expect_insert_failed")

\* records_with_rrsigs: the filter closure
sig_supported(record, supported_algorithms) ==
    IF record.rdata.kind = "SIG"
    THEN record.rdata.algorithm \in supported_algorithms
    ELSE FALSE

\* records_with_rrsigs: the max_by_key closure
sig_key(record) ==
    IF record.rdata.kind = "SIG" THEN record.rdata.algorithm ELSE RSASHA1

\* Iterator::filter
RECURSIVE filter_sigs(_, _)
filter_sigs(sigs, supported_algorithms) ==
    IF sigs = <<>> THEN <<>>
    ELSE IF sig_supported(Head(sigs), supported_algorithms)
         THEN <<Head(sigs)>> \o filter_sigs(Tail(sigs), supported_algorithms)
         ELSE filter_sigs(Tail(sigs), supported_algorithms)

RECURSIVE min_by_key(_, _)
min_by_key(sigs, best) ==
    IF sigs = <<>> THEN best
    ELSE IF best = <<>> \/ sig_key(Head(sigs)) <= sig_key(best[1])
         THEN min_by_key(Tail(sigs), <<Head(sigs)>>)
         ELSE min_by_key(Tail(sigs), best)

\* Iterator::max_by_key: of several maximal elements the last one; the
\* result is an Option, here a sequence of length 0 or 1
RECURSIVE max_by_key(_, _)
max_by_key(sigs, best) ==
    IF sigs = <<>> THEN best
    ELSE IF best = <<>> \/ sig_key(Head(sigs)) >= sig_key(best[1])
         THEN max_by_key(Tail(sigs), <<Head(sigs)>>)
         ELSE max_by_key(Tail(sigs), best)

records_with_rrsigs_filtered(recs, sigs, supported_algorithms) ==
    recs \o max_by_key(filter_sigs(sigs, supported_algorithms), <<>>)

\* RecordSet::records_with_rrsigs
records_with_rrsigs(recs, sigs, supported_algorithms) ==
    IF supported_algorithms = {} THEN recs \o sigs
    ELSE recs \o max_by_key(filter_sigs(sigs, supported_algorithms), <<>>)

------------------------------------------------------------------------------
(* RecordSet: the state machine *)

SetState == [records |-> records, rrsigs |-> rrsigs, serial |-> serial,
             ttl |-> ttl]

Before == [records |-> records, rrsigs |-> rrsigs]

\* the highest SOA serial stored so far, h being the highest before
SoaHigh(recs, h) ==
    IF recs # <<>> /\ recs[1].rr_type = "SOA" /\ recs[1].rdata.kind = "SOA"
       /\ recs[1].rdata.soa_serial > h
    THEN recs[1].rdata.soa_serial ELSE h

\* the effect of a call with result res on the variables
Effect(res, o, a) ==
    /\ records' = res.st.records
    /\ rrsigs' = res.st.rrsigs
    /\ serial' = res.st.serial
    /\ ttl' = res.st.ttl
    /\ ret' = res.ret
    /\ fault' = res.fault
    /\ op' = o /\ arg_type' = a /\ before' = Before
    /\ soa_high' = SoaHigh(res.st.records, soa_high)
    /\ UNCHANGED <<name, record_type, dns_class, supported, out>>
    /\ UNCHANGED <<decVars, encVars>>

\* RecordSet::new
new(n, t, s) ==
    /\ name = n /\ record_type = t /\ dns_class = "IN" /\ ttl = 0
    /\ records = <<>> /\ rrsigs = <<>> /\ serial = s
    /\ op = "new"

\* RecordSet::with_ttl
with_ttl(n, t, l) ==
    /\ name = n /\ record_type = t /\ dns_class = "IN" /\ ttl = l
    /\ records = <<>> /\ rrsigs = <<>> /\ serial = 0
    /\ op = "with_ttl"

\* RecordSet::from
from(record) ==
    /\ name = record.name /\ record_type = record.rr_type
    /\ dns_class = record.dns_class /\ ttl = record.ttl
    /\ records = <<record>> /\ rrsigs = <<>> /\ serial = 0
    /\ op = "from"

\* a decoder that is never used
DecoderIdle ==
    /\ buffer = <<>>
    /\ position = [c \in {"decoder"} |-> 0]
    /\ d_last = [op |-> "new", cursor |-> "decoder", res |-> "ok", value |-> 0,
                 bytes |-> <<>>, len |-> 0, pre |-> 0]

\* an encoder that is never used
EncoderIdle ==
    /\ enc_buffer = <<>> /\ enc_position = 0 /\ name_pointers = {}
    /\ mode = "Normal" /\ canonical_names = FALSE /\ emits = 0
    /\ e_last = [op |-> "new", res |-> "ok", value |-> 0, pre_buf |-> <<>>,
                 pre_pos |-> 0, pre_ptrs |-> {}]

RecordSetInit ==
    /\ \/ \E t \in SetTypes, s \in Serials : new(SetName, t, s)
       \/ \E t \in SetTypes, l \in TTLs : with_ttl(SetName, t, l)
       \/ \E r \in Records :
             r.name = SetName /\ r.rr_type \in SetTypes /\ from(r)
    /\ fault = "none" /\ arg_type = "" /\ ret = FALSE /\ before = Before
    /\ supported = {} /\ out = <<>>
    /\ soa_high = SoaHigh(records, 0)

Init == RecordSetInit /\ DecoderIdle /\ EncoderIdle

insert(record, s) ==
    /\ fault = "none"
    /\ Effect(insert_call(SetState, name, record_type, record, s), "insert",
              record.rr_type)

remove(record, s) ==
    /\ fault = "none"
    /\ Effect(remove_call(SetState, name, record_type, record, s), "remove",
              record.rr_type)

new_record(rdata) ==
    /\ fault = "none"
    /\ Effect(new_record_call(SetState, name, record_type, rdata),
              "new_record", to_record_type(rdata))

set_dns_class_of_set_only(c) ==
    /\ fault = "none"
    /\ dns_class' = c
    /\ op' = "set_dns_class" /\ arg_type' = "" /\ ret' = FALSE
    /\ before' = Before
    /\ UNCHANGED soa_high
    /\ UNCHANGED <<name, record_type, ttl, records, rrsigs, serial, fault,
                   supported, out>>
    /\ UNCHANGED <<decVars, encVars>>

\* RecordSet::set_dns_class
set_dns_class(c) ==
    /\ fault = "none"
    /\ dns_class' = c
    /\ records' = [i \in 1..Len(records) |->
                      [records[i] EXCEPT !.dns_class = c]]
    /\ op' = "set_dns_class" /\ arg_type' = "" /\ ret' = FALSE
    /\ before' = Before
    /\ UNCHANGED soa_high
    /\ UNCHANGED <<name, record_type, ttl, rrsigs, serial, fault, supported,
                   out>>
    /\ UNCHANGED <<decVars, encVars>>

\* RecordSet::set_ttl
set_ttl(l) ==
    /\ fault = "none"
    /\ ttl' = l
    /\ records' = [i \in 1..Len(records) |-> [records[i] EXCEPT !.ttl = l]]
    /\ op' = "set_ttl" /\ arg_type' = "" /\ ret' = FALSE
    /\ before' = Before
    /\ UNCHANGED soa_high
    /\ UNCHANGED <<name, record_type, dns_class, rrsigs, serial, fault,
                   supported, out>>
    /\ UNCHANGED <<decVars, encVars>>

\* RecordSet::insert_rrsig
insert_rrsig(rrsig) ==
    /\ fault = "none"
    /\ rrsigs' = Append(rrsigs, rrsig)
    /\ op' = "insert_rrsig" /\ arg_type' = "" /\ ret' = FALSE
    /\ before' = Before
    /\ UNCHANGED soa_high
    /\ UNCHANGED <<name, record_type, dns_class, ttl, records, serial, fault,
                   supported, out>>
    /\ UNCHANGED <<decVars, encVars>>

\* RecordSet::clear_rrsigs
clear_rrsigs ==
    /\ fault = "none"
    /\ rrsigs' = <<>>
    /\ op' = "clear_rrsigs" /\ arg_type' = "" /\ ret' = FALSE
    /\ before' = Before
    /\ UNCHANGED soa_high
    /\ UNCHANGED <<name, record_type, dns_class, ttl, records, serial, fault,
                   supported, out>>
    /\ UNCHANGED <<decVars, encVars>>

\* RecordSet::records_with_rrsigs, as a call whose result is kept in out
get_records_with_rrsigs(supported_algorithms) ==
    /\ fault = "none"
    /\ supported' = supported_algorithms
    /\ out' = records_with_rrsigs(records, rrsigs, supported_algorithms)
    /\ op' = "records_with_rrsigs" /\ arg_type' = "" /\ ret' = FALSE
    /\ before' = Before
    /\ UNCHANGED soa_high
    /\ UNCHANGED <<name, record_type, dns_class, ttl, records, rrsigs, serial,
                   fault>>
    /\ UNCHANGED <<decVars, encVars>>

\* The set under insert, remove and the setters
Next ==
    \/ \E r \in Records, s \in Serials : insert(r, s)
    \/ \E r \in Records, s \in Serials : remove(r, s)
    \/ \E d \in RDatas : new_record(d)
    \/ \E c \in DNSClasses : set_dns_class(c)
    \/ \E l \in TTLs : set_ttl(l)
    \/ \E g \in SignerRecords : Len(rrsigs) < MaxRrsigs /\ insert_rrsig(g)
    \/ clear_rrsigs

Spec == Init /\ [][Next]_vars

\* The set as the signer and the query path use it: signatures are attached
\* and the records are read back under a supported-algorithm set
SigInit == Init /\ record_type = "A"

SigNext ==
    \/ \E g \in SigRecords : Len(rrsigs) < MaxSigs /\ insert_rrsig(g)
    \/ clear_rrsigs
    \/ \E a \in SUBSET Algorithms : get_records_with_rrsigs(a)

SigSpec == SigInit /\ [][SigNext]_vars

------------------------------------------------------------------------------
(* BinDecoder: a cursor over a borrowed byte slice.                        *)
(* A read yields [res, value, bytes, pos]: res is "ok", "err" (the Err of  *)
(* the ProtoResult) or "panic"; pos is the cursor position afterwards.     *)

Bytes == {1, 255}
ByteSeqs(n) == UNION {[1..k -> Bytes] : k \in 0..n}
\* clone takes a u16 index: any offset up to one past the end of the buffer
CloneOffsets == 0..(MaxBufLen + 1)
ReadLens == 0..(MaxBufLen + 1)

Ok(v, b, p) == [res |-> "ok", value |-> v, bytes |-> b, pos |-> p]
Err(p) == [res |-> "err", value |-> 0, bytes |-> <<>>, pos |-> p]
Panic(p) == [res |-> "panic", value |-> 0, bytes |-> <<>>, pos |-> p]

\* BinDecoder::len: Buf::remaining of the Cursor
remaining(buf, pos) == IF pos >= Len(buf) THEN 0 ELSE Len(buf) - pos

\* BinDecoder::is_empty: !has_remaining()
is_empty(buf, pos) == ~(remaining(buf, pos) > 0)

\* BinDecoder::index: the position of the Cursor, whatever the buffer holds
index(pos) == pos

\* BinDecoder::peek: an Option, kept as a sequence of no byte or one
peek(buf, pos) == IF ~is_empty(buf, pos) THEN <<buf[pos + 1]>> ELSE <<>>

\* the unsigned big-endian value of a byte sequence
RECURSIVE big_endian(_)
big_endian(b) ==
    IF b = <<>> THEN 0
    ELSE big_endian(SubSeq(b, 1, Len(b) - 1)) * 256 + b[Len(b)]

\* get_u32::<BigEndian>: a u32 is kept as its two 16-bit halves, the most
\* significant first, since the numbers of the checker are 32-bit signed
get_u32(b) == <<big_endian(SubSeq(b, 1, 2)), big_endian(SubSeq(b, 3, 4))>>

\* get_i32::<BigEndian>: two's complement
get_i32(b) ==
    LET hi == big_endian(SubSeq(b, 1, 2))
        lo == big_endian(SubSeq(b, 3, 4))
    IN (IF hi >= 32768 THEN hi - 65536 ELSE hi) * 65536 + lo

\* BinDecoder::read_u8
read_u8(buf, pos) ==
    IF is_empty(buf, pos) THEN Err(pos)
    ELSE Ok(buf[pos + 1], <<>>, pos + 1)

\* BinDecoder::pop
pop(buf, pos) == read_u8(buf, pos)

read_u16_off_by_one(buf, pos) ==
    IF remaining(buf, pos) <= 2 THEN Err(pos)
    ELSE Ok(big_endian(SubSeq(buf, pos + 1, pos + 2)), <<>>, pos + 2)

\* BinDecoder::read_u16
read_u16(buf, pos) ==
    IF remaining(buf, pos) <= 1 THEN Err(pos)
    ELSE Ok(big_endian(SubSeq(buf, pos + 1, pos + 2)), <<>>, pos + 2)

\* BinDecoder::read_i32
read_i32(buf, pos) ==
    IF remaining(buf, pos) <= 3 THEN Err(pos)
    ELSE Ok(get_i32(SubSeq(buf, pos + 1, pos + 4)), <<>>, pos + 4)

\* BinDecoder::read_u32
read_u32(buf, pos) ==
    IF remaining(buf, pos) <= 3 THEN Err(pos)
    ELSE Ok(get_u32(SubSeq(buf, pos + 1, pos + 4)), <<>>, pos + 4)

\* BinDecoder::read_vec: copy_to_slice advances by the bytes it copied
read_vec(buf, pos, len) ==
    IF remaining(buf, pos) >= len
    THEN Ok(0, SubSeq(buf, pos + 1, pos + len), pos + len)
    ELSE Err(pos)

\* BinDecoder::read_slice: the slice index panics when its range leaves the
\* buffer; the cursor is not moved
read_slice(buf, pos, len) ==
    IF len > remaining(buf, pos) THEN Err(pos)
    ELSE IF pos + len > Len(buf) THEN Panic(pos)
    ELSE Ok(0, SubSeq(buf, pos + 1, pos + len), pos)

\* String::from_utf8, for text whose code points are below U+0800: a byte
\* under 128 stands alone, a byte of 194..223 leads exactly one
\* continuation byte (128..191), and nothing else is well formed
from_utf8(b) ==
    \A i \in 1..Len(b) :
       \/ b[i] < 128
       \/ b[i] \in 194..223 /\ i < Len(b) /\ b[i + 1] \in 128..191
       \/ b[i] \in 128..191 /\ i > 1 /\ b[i - 1] \in 194..223

\* BinDecoder::read_character_data: the bytes of the String are kept in
\* bytes; each ? returns the error with the cursor where it then is
read_character_data(buf, pos) ==
    LET length == read_u8(buf, pos) IN
    IF length.res # "ok" THEN Err(length.pos)
    ELSE LET vec == read_vec(buf, length.pos, length.value) IN
         IF vec.res # "ok" THEN Err(vec.pos)
         ELSE IF from_utf8(vec.bytes) THEN Ok(0, vec.bytes, vec.pos)
         ELSE Err(vec.pos)

\* a RecordSet that is never used
RecordSetIdle ==
    /\ new(SetName, "A", 0)
    /\ fault = "none" /\ arg_type = "" /\ ret = FALSE /\ before = Before
    /\ supported = {} /\ out = <<>>
    /\ soa_high = SoaHigh(records, 0)

\* BinDecoder::new
DecoderInit ==
    /\ buffer \in ByteSeqs(MaxBufLen)
    /\ position = [c \in {"decoder"} |-> 0]
    /\ d_last = [op |-> "new", cursor |-> "decoder", res |-> "ok", value |-> 0,
                 bytes |-> <<>>, len |-> 0, pre |-> 0]
    /\ RecordSetIdle /\ EncoderIdle

\* a read by cursor c with result r
Read(c, o, len, r) ==
    /\ d_last.res # "panic"
    /\ position' = [position EXCEPT ![c] = r.pos]
    /\ d_last' = [op |-> o, cursor |-> c, res |-> r.res, value |-> r.value,
                  bytes |-> r.bytes, len |-> len, pre |-> position[c]]
    /\ UNCHANGED buffer
    /\ UNCHANGED <<rsVars, encVars>>

do_pop(c) == Read(c, "pop", 1, pop(buffer, position[c]))
do_read_u8(c) == Read(c, "read_u8", 1, read_u8(buffer, position[c]))
do_read_u16(c) == Read(c, "read_u16", 2, read_u16(buffer, position[c]))
do_read_i32(c) == Read(c, "read_i32", 4, read_i32(buffer, position[c]))
do_read_u32(c) == Read(c, "read_u32", 4, read_u32(buffer, position[c]))
do_read_vec(c, len) ==
    Read(c, "read_vec", len, read_vec(buffer, position[c], len))
do_read_slice(c, len) ==
    Read(c, "read_slice", len, read_slice(buffer, position[c], len))

\* peek by cursor c: Some(byte) is an ok result with the byte, None a result
\* of its own; the cursor stays
do_peek(c) ==
    LET p == peek(buffer, position[c]) IN
    Read(c, "peek", 0,
         IF p = <<>> THEN [Ok(0, <<>>, position[c]) EXCEPT !.res = "none"]
         ELSE Ok(p[1], <<>>, position[c]))

do_read_character_data(c) ==
    Read(c, "read_character_data", 0,
         read_character_data(buffer, position[c]))

clone_sharing_cursor(index_at) ==
    /\ d_last.res # "panic"
    /\ position' = [c \in {"decoder", "clone"} |-> index_at]
    /\ d_last' = [op |-> "clone", cursor |-> "clone", res |-> "ok",
                  value |-> 0, bytes |-> <<>>, len |-> 0, pre |-> index_at]
    /\ UNCHANGED buffer
    /\ UNCHANGED <<rsVars, encVars>>

\* BinDecoder::clone: a second cursor over the same slice, at index_at
clone(index_at) ==
    /\ d_last.res # "panic"
    /\ position' = [c \in {"decoder", "clone"} |->
                       IF c = "clone" THEN index_at ELSE position[c]]
    /\ d_last' = [op |-> "clone", cursor |-> "clone", res |-> "ok",
                  value |-> 0, bytes |-> <<>>, len |-> 0, pre |-> index_at]
    /\ UNCHANGED buffer
    /\ UNCHANGED <<rsVars, encVars>>

DecoderNext ==
    \/ \E c \in DOMAIN position : do_pop(c)
    \/ \E c \in DOMAIN position : do_read_u8(c)
    \/ \E c \in DOMAIN position : do_read_u16(c)
    \/ \E c \in DOMAIN position : do_read_i32(c)
    \/ \E c \in DOMAIN position : do_read_u32(c)
    \/ \E c \in DOMAIN position, len \in ReadLens : do_read_vec(c, len)
    \/ \E c \in DOMAIN position, len \in ReadLens : do_read_slice(c, len)
    \/ \E c \in DOMAIN position : do_read_character_data(c)
    \/ \E c \in DOMAIN position : do_peek(c)
    \/ \E i \in CloneOffsets : clone(i)

DecoderSpec == DecoderInit /\ [][DecoderNext]_vars

------------------------------------------------------------------------------
(* BinEncoder: a Cursor over a borrowed Vec<u8>, and the table of label    *)
(* pointers. An encoder state est is [buf, pos, ptrs]; a call yields       *)
(* [st, res] with res "ok", "err" (the Err of the ProtoResult) or "panic". *)

PointerLimit == 16383    \* 0x3FFF
MaxCharData == 255

U8s == {7, 255}
U16s == {258, 65535}
I32s == {-16909060, -1, 2147483647}
U32s == {<<258, 772>>, <<65535, 65535>>}
Vecs == {<<>>, <<1, 255>>}
\* text as its UTF-8 bytes: n times the letter a, and one two-byte letter
TextOf(n) == [i \in 1..n |-> 97]
Texts == {TextOf(n) : n \in {0, 1, MaxCharData, MaxCharData + 1}}
           \cup {<<195, 169>>}
EncodeModes == {"Normal", "Signing"}
InitialBuffers == {<<>>, <<7>>}
Offsets == {0, 1, PointerLimit - 1, PointerLimit, PointerLimit + 1}
LabelSeqs == {<<"com">>, <<"example", "com">>}

EncState == [buf |-> enc_buffer, pos |-> enc_position, ptrs |-> name_pointers]
Done(est) == [st |-> est, res |-> "ok"]
Failed(est, r) == [st |-> est, res |-> r]

\* BinEncoder::len
encoder_len(est) == Len(est.buf)

\* BinEncoder::offset
offset(est) == est.pos

\* BinEncoder::grow: the Vec is resized to len() + len with zeroes (reserve
\* changes the capacity only)
grow(est, len) ==
    [est EXCEPT !.buf = est.buf \o [i \in 1..len |-> 0]]

\* BufMut::put_slice of the Cursor: asserts remaining_mut() >= src.len(),
\* then overwrites the bytes at the position and advances it
put_slice(est, src) ==
    IF remaining(est.buf, est.pos) < Len(src) THEN Failed(est, "panic")
    ELSE Done([est EXCEPT
           !.buf = [i \in 1..Len(est.buf) |->
                      IF i > est.pos /\ i <= est.pos + Len(src)
                      THEN src[i - est.pos] ELSE est.buf[i]],
           !.pos = est.pos + Len(src)])

write_u16_little_endian(n) == <<n % 256, n \div 256>>

\* BigEndian::write_u16
write_u16(n) == <<n \div 256, n % 256>>

\* BigEndian::write_u32, of a u32 kept as its two 16-bit halves
write_u32(n) == write_u16(n[1]) \o write_u16(n[2])

\* BigEndian::write_i32: two's complement
write_i32(n) ==
    <<(n \div 16777216) % 256, (n \div 65536) % 256, (n \div 256) % 256,
      n % 256>>

\* BinEncoder::emit_u8
emit_u8(est, data) == put_slice(grow(est, 1), <<data>>)

\* BinEncoder::emit
emit(est, b) == emit_u8(est, b)

\* BinEncoder::emit_u16
emit_u16(est, data) == put_slice(grow(est, 2), write_u16(data))

\* BinEncoder::emit_i32
emit_i32(est, data) == put_slice(grow(est, 4), write_i32(data))

\* BinEncoder::emit_u32
emit_u32(est, data) == put_slice(grow(est, 4), write_u32(data))

\* BinEncoder::emit_vec
emit_vec(est, data) == put_slice(grow(est, Len(data)), data)

\* BinEncoder::emit_character_data
emit_character_data(est, char_data) ==
    LET char_bytes == char_data IN
    IF Len(char_bytes) > MaxCharData THEN Failed(est, "err")
    ELSE LET len_put == put_slice(grow(est, Len(char_bytes) + 1),
                                  <<Len(char_bytes)>>) IN
         IF len_put.res # "ok" THEN len_put
         ELSE put_slice(len_put.st, char_bytes)

\* BinEncoder::store_label_pointer: HashMap::insert replaces the entry of
\* an equal key
store_label_pointer(est, labels) ==
    IF est.pos < PointerLimit
    THEN Done([est EXCEPT !.ptrs =
                 {e \in est.ptrs : e.labels # labels}
                   \cup {[labels |-> labels, offset |-> est.pos]}])
    ELSE Done(est)

\* BinEncoder::get_label_pointer: the offsets stored for labels (none, or one)
get_label_pointer(est, labels) ==
    {e.offset : e \in {x \in est.ptrs : x.labels = labels}}

(* BinEncoder: the state machine *)

\* BinEncoder::with_offset
with_offset(buf, at, m) ==
    /\ enc_buffer = buf /\ enc_position = at /\ name_pointers = {}
    /\ mode = m /\ canonical_names = FALSE

\* BinEncoder::new
encoder_new(buf) == with_offset(buf, 0, "Normal")

\* BinEncoder::with_mode
with_mode(buf, m) == with_offset(buf, 0, m)

EncoderInit ==
    /\ \/ \E buf \in InitialBuffers : encoder_new(buf)
       \/ \E buf \in InitialBuffers, m \in EncodeModes : with_mode(buf, m)
       \/ \E buf \in InitialBuffers, at \in Offsets, m \in EncodeModes :
             with_offset(buf, at, m)
    /\ emits = 0
    /\ e_last = [op |-> "new", res |-> "ok", value |-> 0,
                 pre_buf |-> enc_buffer, pre_pos |-> enc_position,
                 pre_ptrs |-> {}]
    /\ RecordSetIdle /\ DecoderIdle

\* a call o with argument v and result r
Call(o, v, r) ==
    /\ e_last.res # "panic"
    /\ enc_buffer' = r.st.buf
    /\ enc_position' = r.st.pos
    /\ name_pointers' = r.st.ptrs
    /\ e_last' = [op |-> o, res |-> r.res, value |-> v,
                  pre_buf |-> enc_buffer, pre_pos |-> enc_position,
                  pre_ptrs |-> name_pointers]
    /\ UNCHANGED <<mode, canonical_names>>
    /\ UNCHANGED <<rsVars, decVars>>

Emit(o, v, r) ==
    /\ emits < MaxEmits
    /\ emits' = emits + 1
    /\ Call(o, v, r)

do_emit(b) == Emit("emit", b, emit(EncState, b))
do_emit_u8(data) == Emit("emit_u8", data, emit_u8(EncState, data))
do_emit_u16(data) == Emit("emit_u16", data, emit_u16(EncState, data))
do_emit_i32(data) == Emit("emit_i32", data, emit_i32(EncState, data))
do_emit_u32(data) == Emit("emit_u32", data, emit_u32(EncState, data))
do_emit_vec(data) == Emit("emit_vec", data, emit_vec(EncState, data))
do_emit_character_data(char_data) ==
    Emit("emit_character_data", char_data,
         emit_character_data(EncState, char_data))

do_store_label_pointer(labels) ==
    /\ UNCHANGED emits
    /\ Call("store_label_pointer", labels,
            store_label_pointer(EncState, labels))

\* BinEncoder::set_canonical_names
set_canonical_names(b) ==
    /\ e_last.res # "panic"
    /\ canonical_names' = b
    /\ e_last' = [op |-> "set_canonical_names", res |-> "ok", value |-> 0,
                  pre_buf |-> enc_buffer, pre_pos |-> enc_position,
                  pre_ptrs |-> name_pointers]
    /\ UNCHANGED <<enc_buffer, enc_position, name_pointers, mode, emits>>
    /\ UNCHANGED <<rsVars, decVars>>

EncoderNext ==
    \/ \E b \in U8s : do_emit(b)
    \/ \E data \in U8s : do_emit_u8(data)
    \/ \E data \in U16s : do_emit_u16(data)
    \/ \E data \in I32s : do_emit_i32(data)
    \/ \E data \in U32s : do_emit_u32(data)
    \/ \E data \in Vecs : do_emit_vec(data)
    \/ \E char_data \in Texts : do_emit_character_data(char_data)
    \/ \E labels \in LabelSeqs : do_store_label_pointer(labels)
    \/ \E b \in BOOLEAN : set_canonical_names(b)

EncoderSpec == EncoderInit /\ [][EncoderNext]_vars

------------------------------------------------------------------------------
(* RecordSet: the contracts of insert and remove.                          *)
(* A contract is stated of the call in every reachable state and for every *)
(* record and serial a caller can pass.                                    *)

InsertOf(r, s) == insert_call(SetState, name, record_type, r, s)
RemoveOf(r, s) == remove_call(SetState, name, record_type, r, s)

\* r passes the assertions of insert / of remove
InsertAccepts(r) == r.name = name /\ r.rr_type = record_type
RemoveAccepts(r) ==
    r.name = name /\ (r.rr_type = record_type \/ r.rr_type = "ANY")

Count(seq, x) == Cardinality({i \in DOMAIN seq : seq[i] = x})
Holds(seq, x) == \E i \in DOMAIN seq : seq[i] = x

HoldsSoa ==
    /\ fault = "none" /\ record_type = "SOA"
    /\ Len(records) = 1 /\ records[1].rdata.kind = "SOA"

\* C1: on an SOA-typed set that holds an SOA with rdata serial S1, insert of
\* an SOA record with rdata serial S2 <= S1 returns false and the stored SOA
\* is retained; with S2 > S1 it returns true and the set then holds exactly
\* the new SOA. The serial argument of insert plays no part.
SoaInsertBySerial ==
    HoldsSoa =>
      \A r \in Records, s \in Serials :
        (InsertAccepts(r) /\ r.rdata.kind = "SOA") =>
          LET res == InsertOf(r, s) IN
          /\ res.fault = "none"
          /\ IF r.rdata.soa_serial <= records[1].rdata.soa_serial
             THEN res.ret = FALSE /\ res.st.records = records
             ELSE /\ res.ret = TRUE
                  /\ res.st.records = <<r>>
                  /\ ~Holds(res.st.records, records[1])

\* a newer SOA has just replaced the stored one
SoaReplacedByNewer ==
    /\ HoldsSoa /\ op = "insert" /\ ret
    /\ Len(before.records) = 1 /\ before.records[1].rdata.kind = "SOA"
    /\ before.records[1].rdata.soa_serial < records[1].rdata.soa_serial

\* C2: for a set of any type, CNAME and SOA included, inserting the same
\* record twice in a row returns true and then false, and the set then
\* holds exactly one copy of it. (Stated of the well-typed records.)
InsertTwiceTrueThenFalse ==
    fault = "none" =>
      \A r \in Records, s1 \in Serials, s2 \in Serials :
        (InsertAccepts(r) /\ WellTyped(r)) =>
          LET first == InsertOf(r, s1)
              second == insert_call(first.st, name, record_type, r, s2)
          IN (first.fault = "none" /\ first.ret) =>
               /\ second.fault = "none"
               /\ second.ret = FALSE
               /\ Count(second.st.records, r) = 1

\* C3: on a CNAME-typed set, insert of a CNAME with another target than the
\* stored one returns true, and the set then holds the new record and not
\* the previous one, whatever the serials.
CnameInsertReplaces ==
    (fault = "none" /\ record_type = "CNAME" /\ Len(records) = 1) =>
      \A r \in Records, s \in Serials :
        (InsertAccepts(r) /\ r.rdata # records[1].rdata) =>
          LET res == InsertOf(r, s) IN
          /\ res.fault = "none"
          /\ res.ret = TRUE
          /\ Holds(res.st.records, r)
          /\ ~Holds(res.st.records, records[1])
          /\ Len(res.st.records) = 1

\* a CNAME with another target has just replaced the stored one
CnameReplacedByOther ==
    /\ fault = "none" /\ record_type = "CNAME" /\ op = "insert" /\ ret
    /\ Len(before.records) = 1 /\ Len(records) = 1
    /\ before.records[1].rdata.kind = "CNAME"
    /\ records[1].rdata.kind = "CNAME"
    /\ before.records[1].rdata.val # records[1].rdata.val

\* C4: the last NS record is never removable: an NS-typed set that holds a
\* record never becomes empty, whatever is called with whatever record
\* (of type NS or ANY) that passes the assertions.
LastNsNeverRemoved ==
    [][(fault = "none" /\ record_type = "NS" /\ records # <<>>)
          => records' # <<>>]_vars

\* C5: remove with a record of type SOA returns false whatever the set
\* holds, and leaves records, rrsigs and serial as they were.
SoaNeverRemoved ==
    fault = "none" =>
      \A r \in Records, s \in Serials :
        (RemoveAccepts(r) /\ r.rr_type = "SOA") =>
          LET res == RemoveOf(r, s) IN
          /\ res.fault = "none"
          /\ res.ret = FALSE
          /\ res.st = SetState

\* remove was just called with an SOA-typed record on a set that holds an
\* SOA and signatures
SoaRemoveRefused ==
    /\ HoldsSoa /\ op = "remove" /\ arg_type = "SOA" /\ ~ret
    /\ rrsigs # <<>> /\ before = Before

\* C6: an insert or a remove that returns true leaves rrsigs empty and
\* serial equal to its serial argument, both together.
SuccessClearsSigsAndSetsSerial ==
    fault = "none" =>
      \A r \in Records, s \in Serials :
        /\ LET res == InsertOf(r, s) IN
           (res.fault = "none" /\ res.ret) =>
             (res.st.rrsigs = <<>> /\ res.st.serial = s)
        /\ LET res == RemoveOf(r, s) IN
           (res.fault = "none" /\ res.ret) =>
             (res.st.rrsigs = <<>> /\ res.st.serial = s)

\* a successful insert or remove has just cleared signatures that
\* insert_rrsig had added
SigsClearedBySuccess ==
    /\ fault = "none" /\ op \in {"insert", "remove"} /\ ret
    /\ before.rrsigs # <<>> /\ rrsigs = <<>>

------------------------------------------------------------------------------
(* RecordSet: records_with_rrsigs *)

\* the stored signatures whose algorithm the caller supports
SupportedSigs(sup) ==
    {i \in DOMAIN rrsigs :
        rrsigs[i].rdata.kind = "SIG" /\ rrsigs[i].rdata.algorithm \in sup}

\* C7: with a non-empty supported set, records_with_rrsigs returns the
\* stored records followed by at most one signature; a returned signature
\* is a stored one, its algorithm is supported and is at least that of every
\* stored signature with a supported algorithm; when no stored signature is
\* supported the result is the stored records alone.
OneMaximalSupportedSig ==
    (fault = "none" /\ op = "records_with_rrsigs" /\ supported # {}) =>
      /\ Len(out) >= Len(records)
      /\ SubSeq(out, 1, Len(records)) = records
      /\ Len(out) <= Len(records) + 1
      /\ Len(out) = Len(records) + 1 =>
           LET sig == out[Len(out)] IN
           /\ Holds(rrsigs, sig)
           /\ sig.rdata.kind = "SIG"
           /\ sig.rdata.algorithm \in supported
           /\ \A i \in SupportedSigs(supported) :
                 rrsigs[i].rdata.algorithm <= sig.rdata.algorithm
      /\ SupportedSigs(supported) = {} => out = records

\* records_with_rrsigs has just chosen between two supported signatures of
\* different algorithms
ChoseAmongSupported ==
    /\ op = "records_with_rrsigs" /\ records # <<>>
    /\ Len(out) = Len(records) + 1
    /\ \E i \in SupportedSigs(supported), j \in SupportedSigs(supported) :
          rrsigs[i].rdata.algorithm < rrsigs[j].rdata.algorithm

\* C8: with an empty supported set, records_with_rrsigs returns every stored
\* record followed by every stored signature, in storage order.
EmptySupportedReturnsAll ==
    (fault = "none" /\ op = "records_with_rrsigs" /\ supported = {}) =>
      out = records \o rrsigs

\* records_with_rrsigs has just returned two signatures, one of them no
\* SIG at all, after a record
ReturnedAllSigs ==
    /\ op = "records_with_rrsigs" /\ supported = {}
    /\ records # <<>> /\ Len(rrsigs) >= 2 /\ Holds(rrsigs, NotASig)
    /\ Len(out) = Len(records) + Len(rrsigs)

------------------------------------------------------------------------------
(* BinDecoder: the contracts of the reads *)

FixedReads == {"pop", "read_u8", "read_u16", "read_i32", "read_u32"}
Width(o) == CASE o \in {"pop", "read_u8"} -> 1
              [] o = "read_u16" -> 2
              [] OTHER -> 4

\* the bytes left after position p of the buffer
BytesLeft(p) == IF p > Len(buffer) THEN 0 ELSE Len(buffer) - p

\* the value of the bytes after position p, most significant byte first
ExpectedValue(o, p) ==
    LET b(i) == buffer[p + i] IN
    CASE o \in {"pop", "read_u8"} -> b(1)
      [] o = "read_u16" -> b(1) * 256 + b(2)
      [] o = "read_u32" -> <<b(1) * 256 + b(2), b(3) * 256 + b(4)>>
      [] o = "read_i32" ->
           (IF b(1) >= 128 THEN b(1) - 256 ELSE b(1)) * 16777216
             + b(2) * 65536 + b(3) * 256 + b(4)

\* C9: a fixed-width read fails exactly when fewer bytes remain than its
\* width (1 for read_u8 and pop, 2 for read_u16, 4 for read_u32 and
\* read_i32); when it succeeds the result is the big-endian value of the
\* next bytes and the position has advanced by the width.
FixedWidthReads ==
    d_last.op \in FixedReads =>
      LET w == Width(d_last.op) IN
      /\ d_last.res \in {"ok", "err"}
      /\ d_last.res = "err" <=> BytesLeft(d_last.pre) < w
      /\ d_last.res = "ok" =>
           /\ d_last.value = ExpectedValue(d_last.op, d_last.pre)
           /\ position[d_last.cursor] = d_last.pre + w

\* a read_i32 has just returned a negative number made of the last four
\* bytes of the buffer
ReadNegativeI32 ==
    /\ d_last.op = "read_i32" /\ d_last.res = "ok"
    /\ d_last.value < 0 /\ buffer[d_last.pre + 4] = 1
    /\ position[d_last.cursor] = Len(buffer)

\* C10: read_vec(len) and read_slice(len) fail if and only if len is
\* greater than the number of remaining bytes; when they succeed the bytes
\* returned are the len bytes of the buffer after the current position, all
\* of them inside the buffer.
SlicedReads ==
    d_last.op \in {"read_vec", "read_slice"} =>
      /\ d_last.res # "ok" <=> d_last.len > BytesLeft(d_last.pre)
      /\ d_last.res = "ok" =>
           /\ \A i \in 1..d_last.len : d_last.pre + i <= Len(buffer)
           /\ d_last.bytes = [i \in 1..d_last.len |-> buffer[d_last.pre + i]]

\* C11: reading length 0 always succeeds and does not advance: whatever
\* the cursor (the decoder after any reads, or a clone at any offset),
\* read_vec(0) and read_slice(0) return an empty result, neither an error
\* nor a fault, and leave the position where it was.
ZeroLengthReads ==
    (d_last.op \in {"read_vec", "read_slice"} /\ d_last.len = 0) =>
      /\ d_last.res = "ok"
      /\ d_last.bytes = <<>>
      /\ position[d_last.cursor] = d_last.pre

\* C12: a successful read_slice(len) advances the position by len, so that
\* the next read_slice returns the bytes that follow.
ReadSliceConsumes ==
    (d_last.op = "read_slice" /\ d_last.res = "ok") =>
      position[d_last.cursor] = d_last.pre + d_last.len

\* the encoder was created by new over an empty buffer and has just served
\* its first emit
FirstEmit ==
    /\ e_last.res = "ok"
    /\ e_last.pre_buf = <<>> /\ e_last.pre_pos = 0

\* C13: a u8, u16, i32 or u32 emitted by an encoder created by new over an
\* empty buffer is read back unchanged by the matching read of a decoder
\* at offset 0 of the bytes produced; text of 0 to 255 bytes is emitted
\* without error and read back unchanged by read_character_data.
RoundTrip ==
    /\ FirstEmit =>
         CASE e_last.op \in {"emit", "emit_u8"} ->
                read_u8(enc_buffer, 0) = Ok(e_last.value, <<>>, 1)
           [] e_last.op = "emit_u16" ->
                read_u16(enc_buffer, 0) = Ok(e_last.value, <<>>, 2)
           [] e_last.op = "emit_i32" ->
                read_i32(enc_buffer, 0) = Ok(e_last.value, <<>>, 4)
           [] e_last.op = "emit_u32" ->
                read_u32(enc_buffer, 0) = Ok(e_last.value, <<>>, 4)
           [] e_last.op = "emit_character_data" ->
                read_character_data(enc_buffer, 0)
                  = Ok(0, e_last.value, Len(e_last.value) + 1)
           [] OTHER -> TRUE
    /\ ( /\ e_last.op = "emit_character_data"
         /\ e_last.pre_buf = <<>> /\ e_last.pre_pos = 0
         /\ Len(e_last.value) <= MaxCharData ) => e_last.res = "ok"

\* text of 255 bytes has gone through the encoder and comes back from the
\* decoder
RoundTripLongText ==
    /\ FirstEmit /\ e_last.op = "emit_character_data"
    /\ Len(e_last.value) = MaxCharData
    /\ read_character_data(enc_buffer, 0).bytes = e_last.value

\* C14: emit_character_data fails if and only if the text is longer than
\* 255 bytes, and then with CharacterDataTooLong and nothing written;
\* otherwise it writes at the offset one byte holding the length and then
\* the bytes of the text, and the offset advances by the length plus one.
CharacterDataEmit ==
    e_last.op = "emit_character_data" =>
      LET n == Len(e_last.value) IN
      /\ e_last.res = "err" <=> n > MaxCharData
      /\ n > MaxCharData =>
           enc_buffer = e_last.pre_buf /\ enc_position = e_last.pre_pos
      /\ n <= MaxCharData =>
           /\ e_last.res = "ok"
           /\ enc_position = e_last.pre_pos + n + 1
           /\ enc_buffer[e_last.pre_pos + 1] = n
           /\ \A i \in 1..n : enc_buffer[e_last.pre_pos + 1 + i] = e_last.value[i]

\* C15: store_label_pointer records the labels at the write offset exactly
\* when the offset is one of 0..16383, leaves the table as it was for a
\* larger offset, and never fails.
PointerStoredWithin14Bits ==
    e_last.op = "store_label_pointer" =>
      LET stored == [labels |-> e_last.value, offset |-> e_last.pre_pos] IN
      /\ e_last.res = "ok"
      /\ stored \in name_pointers <=> e_last.pre_pos <= PointerLimit
      /\ e_last.pre_pos > PointerLimit => name_pointers = e_last.pre_ptrs

------------------------------------------------------------------------------
(* RecordSet: what every reachable set satisfies.                          *)

\* C16: every record in records carries the name and the record_type of
\* the set, and insert of a record with another name or type ends in a
\* failed assertion with the set untouched, never in a silent return.
RecordsBelongToSet ==
    /\ \A i \in 1..Len(records) :
         records[i].name = name /\ records[i].rr_type = record_type
    /\ fault = "none" =>
         \A r \in Records, s \in Serials :
            ~InsertAccepts(r) =>
               /\ InsertOf(r, s).fault \in {"assert_name", "assert_type"}
               /\ InsertOf(r, s).st = SetState

\* an insert of a record of another type has just failed its assertion on
\* a set that holds two records
ForeignInsertAsserted ==
    /\ op = "insert" /\ fault = "assert_type" /\ arg_type # record_type
    /\ Len(records) = 2

\* C17: a set of type SOA or CNAME never holds more than one record, and
\* the assertion on records.len() in insert never fails.
SingleValuedTypes ==
    /\ record_type \in {"SOA", "CNAME"} => Len(records) <= 1
    /\ fault # "assert_len"

\* a CNAME set that held a record has accepted an insert and holds one
\* record still
CnameStillSingle ==
    /\ record_type = "CNAME" /\ op = "insert" /\ ret /\ fault = "none"
    /\ Len(before.records) = 1 /\ Len(records) = 1

\* what insert and remove do to ttl, from the current state
TtlOfCalls ==
    fault = "none" =>
      \A r \in Records, s \in Serials :
        /\ InsertAccepts(r) =>
             LET res == InsertOf(r, s) IN
             res.fault = "none" =>
               res.st.ttl = IF res.ret THEN r.ttl ELSE ttl
        /\ RemoveAccepts(r) => RemoveOf(r, s).st.ttl = ttl

\* C18: after an insert that returns true the ttl of the set is the ttl of
\* the inserted record; an insert that returns false and a remove leave it
\* alone; and no step changes it but a successful insert or a set_ttl.
TtlFollowsInsert ==
    /\ []TtlOfCalls
    /\ [][ttl' # ttl => (op' = "set_ttl" \/ (op' = "insert" /\ ret'))]_vars

\* an insert has returned true and changed the ttl of a set that holds
\* another record
TtlTakenFromInsert ==
    /\ op = "insert" /\ ret /\ fault = "none"
    /\ Len(records) = 2 /\ Len(before.records) = 1
    /\ before.records[1].ttl # ttl /\ records[2].ttl = ttl

\* C19: set_ttl(t) sets ttl to t and the ttl of every stored record to t;
\* set_dns_class(c) sets dns_class to c and the class of every stored
\* record to c; the records are otherwise as they were, and so are their
\* number, rrsigs and serial.
SettersRewriteEveryRecord ==
    [][ /\ \A l \in TTLs :
             set_ttl(l) =>
               /\ ttl' = l
               /\ records' = [i \in 1..Len(records) |->
                                 [records[i] EXCEPT !.ttl = l]]
               /\ rrsigs' = rrsigs /\ serial' = serial
               /\ dns_class' = dns_class
        /\ \A c \in DNSClasses :
             set_dns_class(c) =>
               /\ dns_class' = c
               /\ records' = [i \in 1..Len(records) |->
                                 [records[i] EXCEPT !.dns_class = c]]
               /\ rrsigs' = rrsigs /\ serial' = serial
               /\ ttl' = ttl ]_vars

\* set_dns_class has just changed the class of two stored records, with a
\* signature attached
ClassRewritten ==
    /\ op = "set_dns_class" /\ Len(records) = 2 /\ rrsigs # <<>>
    /\ \A i \in 1..2 : /\ records[i].dns_class = dns_class
                       /\ before.records[i].dns_class # dns_class

\* C20: new_record(rdata), with rdata of the type of the set, never fails
\* its lookup of the inserted record: the call ends without a fault and a
\* stored record has the rdata given.
NewRecordIsStored ==
    fault = "none" =>
      \A d \in RDatas :
        to_record_type(d) = record_type =>
          LET res == new_record_call(SetState, name, record_type, d) IN
          /\ res.fault = "none"
          /\ \E i \in 1..Len(res.st.records) : res.st.records[i].rdata = d

\* the records of seq whose rdata is not d, in their order
WithoutRdata(seq, d) == SelectSeq(seq, LAMBDA x : x.rdata # d)

\* C21: a remove that the NS and SOA guards let through deletes the stored
\* records whose rdata equals the rdata of the record given, whatever their
\* ttl and class, and no other record; it returns true exactly when a
\* record was deleted, and the same remove once more returns false.
RemoveDeletesByRdata ==
    fault = "none" =>
      \A r \in Records, s \in Serials :
        (RemoveAccepts(r) /\ ~remove_refused(SetState, r)) =>
          LET res == RemoveOf(r, s)
              again == remove_call(res.st, name, record_type, r, s)
          IN /\ res.fault = "none"
             /\ res.st.records = WithoutRdata(records, r.rdata)
             /\ res.ret <=> \E i \in 1..Len(records) :
                               records[i].rdata = r.rdata
             /\ again.fault = "none" /\ ~again.ret

\* a remove has just deleted one of two records
RemovedOneOfTwo ==
    /\ op = "remove" /\ ret /\ fault = "none"
    /\ Len(before.records) = 2 /\ Len(records) = 1
    /\ records[1] \in {before.records[1], before.records[2]}

\* C22: every stored record has the dns_class of the set.
OneClass ==
    \A i \in 1..Len(records) : records[i].dns_class = dns_class

------------------------------------------------------------------------------
(* BinEncoder: the pointer table and the emits.                            *)

EncStateAfter ==
    [buf |-> enc_buffer', pos |-> enc_position', ptrs |-> name_pointers']

\* C23: get_label_pointer(labels) is the write offset of the earliest
\* store_label_pointer(labels): once labels have an offset no later call
\* changes it, and labels get an offset only by a store_label_pointer of
\* exactly those labels, which gives them the write offset of that moment.
FirstPointerKept ==
    [][\A l \in LabelSeqs :
         LET was == get_label_pointer(EncState, l)
             is == get_label_pointer(EncStateAfter, l)
         IN /\ was # {} => is = was
            /\ (was = {} /\ is # {}) =>
                  /\ e_last'.op = "store_label_pointer" /\ e_last'.value = l
                  /\ is = {enc_position}]_vars

\* the bytes an emit is given to write
Written(o, v) ==
    CASE o \in {"emit", "emit_u8"} -> <<v>>
      [] o = "emit_u16" -> <<v \div 256, v % 256>>
      [] o = "emit_i32" -> write_i32(v)
      [] o = "emit_u32" -> <<v[1] \div 256, v[1] % 256, v[2] \div 256,
                             v[2] % 256>>
      [] o = "emit_vec" -> v

\* C24: every emit appends: after emit, emit_u8, emit_u16, emit_i32,
\* emit_u32 or emit_vec the buffer is what it was before the call followed
\* by the bytes written (big-endian for the integers), and len() and
\* offset() have each grown by the number of those bytes.
EmitAppends ==
    e_last.op \in {"emit", "emit_u8", "emit_u16", "emit_i32", "emit_u32",
                   "emit_vec"} =>
      LET w == Written(e_last.op, e_last.value) IN
      /\ e_last.res = "ok"
      /\ enc_buffer = e_last.pre_buf \o w
      /\ Len(enc_buffer) = Len(e_last.pre_buf) + Len(w)
      /\ enc_position = e_last.pre_pos + Len(w)

------------------------------------------------------------------------------
(* BinDecoder: the cursors.                                                *)

\* C25: clone(offset) gives an independent cursor over the same bytes, at
\* offset: the clone call and the reads of the clone leave index() and
\* len() of the decoder it was taken from as they were, the reads of that
\* decoder do not move the clone, and no call changes the bytes.
CloneIsIndependent ==
    [][ /\ buffer' = buffer
        /\ d_last'.op = "clone" => position'["clone"] = d_last'.pre
        /\ d_last'.cursor = "clone" =>
             /\ position'["decoder"] = position["decoder"]
             /\ remaining(buffer', position'["decoder"])
                  = remaining(buffer, position["decoder"])
        /\ (d_last'.cursor = "decoder" /\ "clone" \in DOMAIN position) =>
             position'["clone"] = position["clone"] ]_vars

\* the clone has read two bytes behind a decoder that has read one
CloneReadAhead ==
    /\ d_last.cursor = "clone" /\ d_last.op = "read_u16" /\ d_last.res = "ok"
    /\ position["decoder"] = 1 /\ d_last.pre = 2 /\ position["clone"] = 4

------------------------------------------------------------------------------
(* RecordSet: refusals, replacement and the rdata of the stored records.   *)

\* C26: an insert or a remove that returns false changes nothing: records,
\* rrsigs, serial and ttl are after the call what they were before it, for
\* every record the assertions of the operation accept.
FalseMutatesNothing ==
    fault = "none" =>
      \A r \in Records, s \in Serials :
        /\ InsertAccepts(r) =>
             LET res == InsertOf(r, s) IN
             (res.fault = "none" /\ ~res.ret) => res.st = SetState
        /\ RemoveAccepts(r) =>
             LET res == RemoveOf(r, s) IN
             (res.fault = "none" /\ ~res.ret) => res.st = SetState

\* an insert of a record equal to a stored one has been refused, with a
\* signature attached and kept
DuplicateRefused ==
    /\ op = "insert" /\ ~ret /\ fault = "none" /\ arg_type = "A"
    /\ Len(records) = 2 /\ records = before.records
    /\ rrsigs # <<>> /\ rrsigs = before.rrsigs

\* C27: on a set of type SOA the rdata serial of the stored SOA never goes
\* down: the SOA a call leaves in the set has a serial no lower than any
\* SOA the set has stored before, and a higher serial than the SOA stored
\* before the call when its rdata is another.
SoaSerialNeverOlder ==
    [][ /\ HoldsSoa' => records'[1].rdata.soa_serial >= soa_high
        /\ (HoldsSoa /\ HoldsSoa' /\ records'[1].rdata # records[1].rdata) =>
             records'[1].rdata.soa_serial > records[1].rdata.soa_serial ]_vars

\* C28: on a set of another type than SOA and CNAME, insert of a record
\* whose rdata equals the rdata of a stored record, and which differs from
\* it otherwise, returns true and puts the record in the place of the
\* stored one, the other records staying where they are; insert of a
\* record whose rdata no stored record has appends it.
InsertReplacesInPlace ==
    (fault = "none" /\ record_type \notin {"SOA", "CNAME"}) =>
      \A r \in Records, s \in Serials :
        InsertAccepts(r) =>
          LET res == InsertOf(r, s) IN
          /\ \A i \in 1..Len(records) :
               (records[i].rdata = r.rdata /\ records[i] # r) =>
                  /\ res.fault = "none" /\ res.ret
                  /\ res.st.records = [records EXCEPT ![i] = r]
          /\ (\A i \in 1..Len(records) : records[i].rdata # r.rdata) =>
                  /\ res.fault = "none" /\ res.ret
                  /\ res.st.records = Append(records, r)

\* the first of two records has just been replaced by one of another ttl
ReplacedFirstOfTwo ==
    /\ op = "insert" /\ ret /\ fault = "none"
    /\ Len(records) = 2 /\ Len(before.records) = 2
    /\ records[1].rdata = before.records[1].rdata
    /\ records[1].ttl # before.records[1].ttl
    /\ records[2] = before.records[2]

\* C29: no two stored records have equal rdata, so that the loops of insert
\* and remove act on one index at most.
DistinctRdata ==
    /\ \A i, j \in 1..Len(records) :
         records[i].rdata = records[j].rdata => i = j
    /\ \A r \in Records : Len(rdata_matches(records, r, 1)) <= 1

\* an insert has found the rdata of its record in a set of two and has
\* put the record there
MatchedOneOfTwo ==
    /\ op = "insert" /\ ret /\ fault = "none"
    /\ Len(records) = 2 /\ Len(before.records) = 2
    /\ records # before.records

\* C30: the panic on wrong rdata in insert is never reached: the record a
\* set of type SOA stores has SOA rdata, and insert of a record of type SOA
\* with other rdata returns false and changes nothing, whatever the set
\* holds.
SoaSetHoldsSoaRdata ==
    /\ fault # "wrong_rdata"
    /\ record_type = "SOA" =>
         /\ \A i \in 1..Len(records) : records[i].rdata.kind = "SOA"
         /\ fault = "none" =>
              \A r \in Records, s \in Serials :
                (InsertAccepts(r) /\ r.rdata.kind # "SOA") =>
                   InsertOf(r, s) = Returns(SetState, FALSE)

\* C31: for every cursor over the buffer, the one made by new and the one
\* made by clone, index() is at most the length of the buffer, index() and
\* len() add up to that length, and is_empty() is true, and peek() none,
\* exactly when index() is that length.
CursorWithinBuffer ==
    \A c \in DOMAIN position :
       LET i == index(position[c])
           L == Len(buffer)
       IN /\ i <= L
          /\ i + remaining(buffer, position[c]) = L
          /\ is_empty(buffer, position[c]) <=> i = L
          /\ peek(buffer, position[c]) = <<>> <=> i = L

\* C32: a read that has returned an error has left its cursor where it
\* was before the call, so index() and len() are what they were.
FailedReadConsumesNothing ==
    d_last.res = "err" =>
       /\ index(position[d_last.cursor]) = index(d_last.pre)
       /\ remaining(buffer, position[d_last.cursor]) =
             remaining(buffer, d_last.pre)

====
